---- MODULE Spec2Model ----
(***************************************************************************)
(* Model of the bouncing-ball simulation of physics.py (PhysicsModel) and  *)
(* of its subclass TesterModel (tester.py).                                *)
(*                                                                         *)
(* Arithmetic.  The program computes in floating point; the model computes *)
(* the same expressions exactly, in fixed point.  One pixel is Unit model  *)
(* units, where Unit is the smallest resolution at which every per-frame   *)
(* constant (GRAVITY/fps^2, SIDEWARD_PUSH_ACCELERATION/fps^2,              *)
(* SPEED_LIMIT_X/fps, JUMP_HEIGHT/fps) is a whole number, so positions,    *)
(* velocities (per frame) and accelerations (per frame^2) are integers and *)
(* no rounding takes place.  The raycast parameters t and u are kept as    *)
(* fractions (numerator, denominator) and compared by cross-multiplying.   *)
(***************************************************************************)
EXTENDS Integers, Sequences, FiniteSets, TLC

\* ---------------------------------------------------------------------
\* _Constants (physics.py)
\* ---------------------------------------------------------------------
GRAVITY == 4000
BOUNCE_FACTOR_X == 1
BOUNCE_FACTOR_Y == 1
FRICTIONAL_CONSTANT == 1
SPEED_LIMIT_X == 2000
JUMP_HEIGHT == 1100
SIDEWARD_PUSH_ACCELERATION == 2100

\* epsilon = 1e-2 in check_bounce, as the fraction EpsilonNum / EpsilonDen
EpsilonNum == 1
EpsilonDen == 100

\* r=5 in _init_ball
BallRadius == 5

\* ---------------------------------------------------------------------
\* Bounds of the model
\* ---------------------------------------------------------------------
\* frames (height_update calls) explored by Spec
MaxFrames == 2
\* input actions issued per frame
MaxInputs == 1
\* height_update is explored while the ball is within MaxOut arena heights
\* (widths) of the arena origin, on either side
MaxOut == 2

\* construction parameters explored
FpsSet == {10, 20}
ArenaSet == {<<40, 50>>, <<50, 40>>}
FallArenaSet == {<<200, 200>>, <<300, 450>>, <<900, 900>>}
ClassSet == {"PhysicsModel", "TesterModel"}

\* ---------------------------------------------------------------------
\* Arithmetic helpers
\* ---------------------------------------------------------------------
Abs(n) == IF n < 0 THEN -n ELSE n

RECURSIVE GCD(_, _)
GCD(a, b) == IF b = 0 THEN a ELSE GCD(b, a % b)

RECURSIVE Pow(_, _)
Pow(x, n) == IF n = 0 THEN 1 ELSE x * Pow(x, n - 1)

\* c ** (1/n) for a c that is a perfect n-th power
Root(c, n) == CHOOSE x \in 0..c : Pow(x, n) = c

\* (dx**2 + dy**2) ** 0.5 where that is a whole number; the root lies between
\* the longer leg and the sum of the legs
Hypot(dx, dy) ==
    LET lo == IF Abs(dx) > Abs(dy) THEN Abs(dx) ELSE Abs(dy)
    IN CHOOSE k \in lo..(Abs(dx) + Abs(dy)) : k * k = dx * dx + dy * dy

\* an / ad <= bn / bd for fractions with non-zero denominators
Leq(an, ad, bn, bd) ==
    IF (ad > 0) = (bd > 0) THEN an * bd <= bn * ad ELSE an * bd >= bn * ad

\* model units per pixel for a frame rate f
UnitOf(f) == (f * f) \div GCD(f * f, GCD(GRAVITY, SIDEWARD_PUSH_ACCELERATION))

VARIABLES
    cls,                  \* class of the model object
    fps, width, height,   \* self._fps, self._width, self._height
    gravity,              \* self._gravity
    bounce_factor_x,      \* self._bounce_factor_x
    bounce_factor_y,      \* self._bounce_factor_y
    frictional_constant,  \* self._frictional_constant
    surfaces,             \* self._surfaces
    ball,                 \* self._ball
    op,                   \* the last method that ran
    bounced,              \* whether the last check_bounce called bounce()
    hit,                  \* index of closest_surface in the last check_bounce
    turned,               \* some height_update so far bounced off the bottom
                          \* surface and turned v_y from downward to upward
    frame,                \* Controller._frame
    keys,                 \* input actions already issued in this frame
    call,                 \* the call made to the geometry kernel
                          \* (physics_types.py), with its arguments
    ret                   \* what that call returned or raised

vars == <<cls, fps, width, height, gravity, bounce_factor_x, bounce_factor_y,
          frictional_constant, surfaces, ball, op, bounced, hit, turned, frame,
          keys, call, ret>>

config == <<cls, fps, width, height, gravity, bounce_factor_x,
            bounce_factor_y, frictional_constant, surfaces>>

\* the geometry kernel's call record; the simulation never calls the kernel
kernel == <<call, ret>>

\* no call of the geometry kernel has been made
NoCall == [fn |-> "none"]

\* no value
NoValue == [kind |-> "none"]

Unit == UnitOf(fps)

Point(x, y) == [p_x |-> x, p_y |-> y]

Surface(s, e, ty) == [start |-> s, end |-> e, surface_type |-> ty]

\* InitSurfaces with the second surface ending at (width, width)
InitSurfaces_square(w, h, u) ==
    << Surface(Point(0, 0), Point(w * u, 0), "IN"),
       Surface(Point(w * u, 0), Point(w * u, w * u), "IN"),
       Surface(Point(w * u, h * u), Point(0, h * u), "IN"),
       Surface(Point(0, h * u), Point(0, 0), "IN") >>

\* self._surfaces of PhysicsModel.__init__, in model units (u per pixel)
InitSurfaces(w, h, u) ==
    << Surface(Point(0, 0), Point(w * u, 0), "IN"),
       Surface(Point(w * u, 0), Point(w * u, h * u), "IN"),
       Surface(Point(w * u, h * u), Point(0, h * u), "IN"),
       Surface(Point(0, h * u), Point(0, 0), "IN") >>

Ball(px, py, vx, vy, ax, ay, rad) ==
    [p_x |-> px, p_y |-> py, v_x |-> vx, v_y |-> vy,
     a_x |-> ax, a_y |-> ay, r |-> rad]

\* PhysicsModel._init_ball
PhysicsInitBall(w, h, u) == Ball((w \div 2) * u, h * u, 0, 0, 0, 0, BallRadius * u)

\* TesterModel._init_ball (Ball.from_bearing with v_m = 0 and a_m = 0)
TesterInitBall(w, h, u) ==
    Ball((w \div 2) * u, (h \div 2) * u, 0, 0, 0, 0, BallRadius * u)

\* InitGravity dividing by fps once
InitGravity_per_fps(f, u) == (GRAVITY * u) \div f

\* self._gravity = GRAVITY / fps**2
InitGravity(f, u) == (GRAVITY * u) \div (f * f)

\* self._frictional_constant = FRICTIONAL_CONSTANT ** (1/fps)
InitFriction(f) == Root(FRICTIONAL_CONSTANT, f)

\* PhysicsModel.__init__ / TesterModel.__init__
Construct(c, f, w, h) ==
    /\ cls = c
    /\ fps = f
    /\ width = w
    /\ height = h
    /\ gravity = InitGravity(f, UnitOf(f))
    /\ bounce_factor_x = BOUNCE_FACTOR_X
    /\ bounce_factor_y = BOUNCE_FACTOR_Y
    /\ frictional_constant = InitFriction(f)
    /\ surfaces = InitSurfaces(w, h, UnitOf(f))
    /\ ball = IF c = "PhysicsModel" THEN PhysicsInitBall(w, h, UnitOf(f))
                                    ELSE TesterInitBall(w, h, UnitOf(f))
    /\ op = "init"
    /\ bounced = FALSE
    /\ hit = 0
    /\ turned = FALSE
    /\ frame = 0
    /\ keys = {}
    /\ call = NoCall
    /\ ret = NoValue

Init == \E c \in ClassSet, f \in FpsSet, a \in ArenaSet :
            Construct(c, f, a[1], a[2])

\* ---------------------------------------------------------------------
\* Nearest surface
\* ---------------------------------------------------------------------
\* one entry of ball_dist_from_every_surface
surface_dist(b, s) ==
    LET x1 == s.start.p_x
        x2 == s.end.p_x
        y1 == s.start.p_y
        y2 == s.end.p_y
        x3 == b.p_x
        y3 == b.p_y
        determinant == (y2 - y1) * x3 - (x2 - x1) * y3 + ((x2 * y1) - (y2 * x1))
        length == Hypot(y2 - y1, x2 - x1)
    IN CASE s.surface_type = "IN" -> (-determinant) \div length
         [] s.surface_type = "OUT" -> determinant \div length
         [] s.surface_type = "DOUBLE" -> Abs(determinant \div length)

ball_dist_from_every_surface(b, S) ==
    [i \in 1..Len(S) |-> surface_dist(b, S[i])]

ball_dist_from_next_surface(b, S) ==
    LET distances == ball_dist_from_every_surface(b, S)
    IN CHOOSE d \in {distances[i] : i \in 1..Len(S)} :
           \A i \in 1..Len(S) : d <= distances[i]

\* closest_surface taking the last position that holds the minimum
closest_surface_last(b, S) ==
    LET dist == ball_dist_from_next_surface(b, S)
        distances == ball_dist_from_every_surface(b, S)
    IN CHOOSE i \in 1..Len(S) :
           /\ distances[i] = dist
           /\ \A j \in (i + 1)..Len(S) : distances[j] # dist

\* index (from 1) of closest_surface in self._surfaces: list.index gives
\* the first position holding the minimum
closest_surface(b, S) ==
    LET dist == ball_dist_from_next_surface(b, S)
        distances == ball_dist_from_every_surface(b, S)
    IN CHOOSE i \in 1..Len(S) :
           /\ distances[i] = dist
           /\ \A j \in 1..(i - 1) : distances[j] # dist

\* ---------------------------------------------------------------------
\* Probe and raycast
\* ---------------------------------------------------------------------
\* The probe of check_bounce: direction unit_vector(ball.v_d) and reach
\* max_distance = ball.v_m.  The unit direction of a velocity (v_x, v_y) is
\* (v_x, v_y) / v_m, which is irrational in general; raycast's t does not
\* depend on the length of the probe direction and its u is inversely
\* proportional to it, so the probe is cast with the direction scaled by
\* v_m and 0 <= u <= v_m becomes 0 <= u <= 1.  At rest the bearing is the
\* 0 degrees the ball was built with, unit_vector(0) = (1, 0), and the
\* reach is 0.
probe(b) ==
    IF b.v_x = 0 /\ b.v_y = 0
    THEN [dir_x |-> 1, dir_y |-> 0, max_distance |-> 0]
    ELSE [dir_x |-> b.v_x, dir_y |-> b.v_y, max_distance |-> 1]

\* t = tn / denom and u = un / denom; inf stands for (inf, inf)
raycast(x1, y1, x2, y2, x3, y3, x4, y4) ==
    LET denom == (x1 - x2) * (y3 - y4) - (y1 - y2) * (x3 - x4)
    IN IF denom = 0
       THEN [inf |-> TRUE, tn |-> 0, un |-> 0, denom |-> 1]
       ELSE [inf |-> FALSE,
             tn |-> (x1 - x3) * (y3 - y4) - (y1 - y3) * (x3 - x4),
             un |-> -((x1 - x2) * (y1 - y3) - (y1 - y2) * (x1 - x3)),
             denom |-> denom]

\* in_window with the tolerance window on u (the probe) and not on t
in_window_on_probe(rc, max_distance) ==
    /\ Leq(0, 1, rc.tn, rc.denom)
    /\ Leq(rc.tn, rc.denom, 1, 1)
    /\ Leq(EpsilonNum * max_distance, EpsilonDen, rc.un, rc.denom)
    /\ Leq(rc.un, rc.denom, (EpsilonDen - EpsilonNum) * max_distance,
           EpsilonDen)

\* the condition under which check_bounce calls bounce()
in_window(rc, max_distance) ==
    /\ Leq(EpsilonNum, EpsilonDen, rc.tn, rc.denom)
    /\ Leq(rc.tn, rc.denom, EpsilonDen - EpsilonNum, EpsilonDen)
    /\ Leq(0, 1, rc.un, rc.denom)
    /\ Leq(rc.un, rc.denom, max_distance, 1)

\* TRUE iff check_bounce calls bounce()
check_bounce(b, S) ==
    LET pr == probe(b)
        s == S[closest_surface(b, S)]
        x3 == b.p_x
        y3 == b.p_y
        x4 == b.p_x + pr.dir_x
        y4 == b.p_y + pr.dir_y
        rc == raycast(s.start.p_x, s.start.p_y, s.end.p_x, s.end.p_y,
                      x3, y3, x4, y4)
    IN IF rc.inf THEN FALSE ELSE in_window(rc, pr.max_distance)

\* bounce that removes the normal component once and does not double it
bounce_absorbing(b, S, bfx, bfy) ==
    LET s == S[closest_surface(b, S)]
        dx == s.end.p_x - s.start.p_x
        dy == s.end.p_y - s.start.p_y
        length == Hypot(dx, dy)
        nx == (-dy) \div length
        ny == dx \div length
        dot_product == b.v_x * nx + b.v_y * ny
    IN [b EXCEPT !.v_x = b.v_x - dot_product * nx * bfx,
                 !.v_y = b.v_y - dot_product * ny * bfy]

\* the ball after bounce()
bounce(b, S, bfx, bfy) ==
    LET s == S[closest_surface(b, S)]
        dx == s.end.p_x - s.start.p_x
        dy == s.end.p_y - s.start.p_y
        length == Hypot(dx, dy)
        nx == (-dy) \div length
        ny == dx \div length
        dot_product == b.v_x * nx + b.v_y * ny
    IN [b EXCEPT !.v_x = b.v_x - 2 * dot_product * nx * bfx,
                 !.v_y = b.v_y - 2 * dot_product * ny * bfy]

\* ---------------------------------------------------------------------
\* Integration
\* ---------------------------------------------------------------------
accelerate_x(b) == [b EXCEPT !.v_x = b.v_x + b.a_x]

accelerate_y(b) == [b EXCEPT !.v_y = b.v_y + b.a_y]

move_x(b) == [b EXCEPT !.p_x = b.p_x + b.v_x]

move_y(b) == [b EXCEPT !.p_y = b.p_y + b.v_y]

\* integrate moving first and accelerating afterwards
integrate_move_first(b) == accelerate_y(accelerate_x(move_y(move_x(b))))

\* the ball after the integration part of height_update
integrate(b) == move_y(move_x(accelerate_y(accelerate_x(b))))

\* the ball after height_update
stepped(b, S, bfx, bfy) ==
    integrate(IF check_bounce(b, S) THEN bounce(b, S, bfx, bfy) ELSE b)

\* ---------------------------------------------------------------------
\* Methods of PhysicsModel (each leaves the construction-time fields alone)
\* ---------------------------------------------------------------------
height_update ==
    /\ ball' = stepped(ball, surfaces, bounce_factor_x, bounce_factor_y)
    /\ bounced' = check_bounce(ball, surfaces)
    /\ hit' = closest_surface(ball, surfaces)
    /\ turned' = (turned \/ (/\ check_bounce(ball, surfaces)
                              /\ closest_surface(ball, surfaces) = 3
                              /\ ball.v_y > 0
                              /\ bounce(ball, surfaces, bounce_factor_x,
                                        bounce_factor_y).v_y < 0))
    /\ op' = "height_update"
    /\ UNCHANGED <<config, kernel>>

accelerate_to_gravity ==
    /\ ball' = [ball EXCEPT !.a_y = gravity]
    /\ op' = "accelerate_to_gravity"
    /\ UNCHANGED <<config, kernel, bounced, hit, turned>>

\* jump that also lifts the ball by the jump velocity
jump_lifting ==
    /\ ball' = [ball EXCEPT !.v_y = -((JUMP_HEIGHT * Unit) \div fps),
                            !.p_y = ball.p_y - (JUMP_HEIGHT * Unit) \div fps]
    /\ op' = "jump"
    /\ UNCHANGED <<config, kernel, bounced, hit, turned>>

jump ==
    /\ ball' = [ball EXCEPT !.v_y = -((JUMP_HEIGHT * Unit) \div fps)]
    /\ op' = "jump"
    /\ UNCHANGED <<config, kernel, bounced, hit, turned>>

\* SPEED_LIMIT_X / fps
speed_limit == (SPEED_LIMIT_X * Unit) \div fps

\* SIDEWARD_PUSH_ACCELERATION / fps**2
push_acceleration == (SIDEWARD_PUSH_ACCELERATION * Unit) \div (fps * fps)

push_right ==
    /\ ball' = IF ball.v_x < speed_limit
               THEN [ball EXCEPT !.v_x = ball.v_x + push_acceleration]
               ELSE ball
    /\ op' = "push_right"
    /\ UNCHANGED <<config, kernel, bounced, hit, turned>>

push_left ==
    /\ ball' = IF ball.v_x > -speed_limit
               THEN [ball EXCEPT !.v_x = ball.v_x - push_acceleration]
               ELSE ball
    /\ op' = "push_left"
    /\ UNCHANGED <<config, kernel, bounced, hit, turned>>

push_down ==
    /\ ball' = IF ball.v_y < speed_limit
               THEN [ball EXCEPT !.v_y = ball.v_y + push_acceleration]
               ELSE ball
    /\ op' = "push_down"
    /\ UNCHANGED <<config, kernel, bounced, hit, turned>>

push_up ==
    /\ ball' = IF ball.v_y > -speed_limit
               THEN [ball EXCEPT !.v_y = ball.v_y - push_acceleration]
               ELSE ball
    /\ op' = "push_up"
    /\ UNCHANGED <<config, kernel, bounced, hit, turned>>

\* ---------------------------------------------------------------------
\* Callers
\* ---------------------------------------------------------------------
\* the ball is within MaxOut arena sizes of the arena
in_reach ==
    /\ Abs(ball.p_x) <= MaxOut * width * Unit
    /\ Abs(ball.p_y) <= MaxOut * height * Unit

\* Controller.update: one frame; the input actions of the frame follow it
update ==
    /\ frame < MaxFrames
    /\ in_reach
    /\ height_update
    /\ frame' = frame + 1
    /\ keys' = {}

\* an input action k may be issued: at most once per frame
may_press(k) == k \notin keys /\ Cardinality(keys) < MaxInputs

press_gravity ==
    may_press("gravity") /\ accelerate_to_gravity
    /\ keys' = keys \cup {"gravity"} /\ UNCHANGED frame

press_jump ==
    may_press("jump") /\ jump
    /\ keys' = keys \cup {"jump"} /\ UNCHANGED frame

press_right ==
    may_press("right") /\ push_right
    /\ keys' = keys \cup {"right"} /\ UNCHANGED frame

press_left ==
    may_press("left") /\ push_left
    /\ keys' = keys \cup {"left"} /\ UNCHANGED frame

press_down ==
    may_press("down") /\ push_down
    /\ keys' = keys \cup {"down"} /\ UNCHANGED frame

press_up ==
    may_press("up") /\ push_up
    /\ keys' = keys \cup {"up"} /\ UNCHANGED frame

Next ==
    \/ update
    \/ press_gravity
    \/ press_jump
    \/ press_right
    \/ press_left
    \/ press_down
    \/ press_up

Spec == Init /\ [][Next]_vars

\* --- a direct call of bounce() among the other calls ---
call_bounce ==
    /\ may_press("bounce")
    /\ ball' = bounce(ball, surfaces, bounce_factor_x, bounce_factor_y)
    /\ hit' = closest_surface(ball, surfaces)
    /\ op' = "bounce"
    /\ keys' = keys \cup {"bounce"}
    /\ UNCHANGED <<config, kernel, bounced, turned, frame>>

NextBounce ==
    \/ update
    \/ press_gravity
    \/ press_jump
    \/ press_right
    \/ press_left
    \/ press_down
    \/ press_up
    \/ call_bounce

SpecBounce == Init /\ [][NextBounce]_vars

\* --- free fall: the ball of a TesterModel under gravity ---
InitFall == \E f \in FpsSet, a \in FallArenaSet :
                Construct("TesterModel", f, a[1], a[2])

fall_gravity ==
    /\ op = "init"
    /\ accelerate_to_gravity
    /\ UNCHANGED <<frame, keys>>

fall_step ==
    /\ op # "init"
    /\ in_reach
    /\ height_update
    /\ UNCHANGED <<frame, keys>>

NextFall == fall_gravity \/ fall_step

SpecFall == InitFall /\ [][NextFall]_vars

\* --- pushes only, from rest ---
push_only(A) == A /\ UNCHANGED <<frame, keys>>

NextPush ==
    \/ push_only(push_right)
    \/ push_only(push_left)
    \/ push_only(push_down)
    \/ push_only(push_up)

SpecPush == Init /\ [][NextPush]_vars

\* =====================================================================
\* Properties
\* =====================================================================
\* the ball centre is inside the closed arena rectangle
in_arena(b) ==
    /\ 0 <= b.p_x /\ b.p_x <= width * Unit
    /\ 0 <= b.p_y /\ b.p_y <= height * Unit

\* C1: no tunneling -- from the arena centre at rest, after
\* accelerate_to_gravity and any number of height_update steps, the ball
\* centre satisfies 0 <= p_x <= width and 0 <= p_y <= height.
C1_NoTunneling == in_arena(ball)

\* C2: from the arena centre at rest with gravity applied, repeated
\* height_update steps eventually reach a step that bounces off the bottom
\* surface and turns v_y from downward to upward.  Past the bottom surface
\* the ball only falls further and no probe reaches a surface again, so in a
\* run that reaches such a step the ball has bounced before it gets there.
C2_BouncesOffBottom == ball.p_y > height * Unit => turned

\* the ball has a velocity direction
moving(b) == b.v_x # 0 \/ b.v_y # 0

\* C3: one height_update runs bounce check, then velocity integration, then
\* position integration: the position advances by the already-updated
\* velocity, the acceleration is unchanged by the step, and when no bounce
\* is triggered the new velocity is v + a per axis.
C3_StepOrder ==
    [][op' = "height_update" =>
          /\ ball'.a_x = ball.a_x
          /\ ball'.a_y = ball.a_y
          /\ ball'.p_x = ball.p_x + ball'.v_x
          /\ ball'.p_y = ball.p_y + ball'.v_y
          /\ ~bounced' => /\ ball'.v_x = ball.v_x + ball.a_x
                          /\ ball'.v_y = ball.v_y + ball.a_y]_vars

\* a step without a bounce of a ball that was moving under an acceleration
C3_Witness ==
    /\ op = "height_update"
    /\ ~bounced
    /\ ball.a_y > 0
    /\ ball.v_y > ball.a_y

\* --- the geometry of a probe against an axis-parallel surface ---
\* The probe of a moving ball runs from p to p + v.  For a surface along
\* y = Y it meets the surface's line at the fraction lam = (Y - p_y) / v_y of
\* the frame's travel, at the fraction frac of the surface's length from the
\* surface's start; likewise with x and y exchanged for a surface along
\* x = X.  Both are returned as fractions n / d; par marks a probe parallel
\* to the surface.
crossing(b, s) ==
    IF s.start.p_y = s.end.p_y
    THEN [par |-> b.v_y = 0,
          lam_n |-> s.start.p_y - b.p_y,
          lam_d |-> b.v_y,
          frac_n |-> (b.p_x - s.start.p_x) * b.v_y
                     + (s.start.p_y - b.p_y) * b.v_x,
          frac_d |-> b.v_y * (s.end.p_x - s.start.p_x)]
    ELSE [par |-> b.v_x = 0,
          lam_n |-> s.start.p_x - b.p_x,
          lam_d |-> b.v_x,
          frac_n |-> (b.p_y - s.start.p_y) * b.v_x
                     + (s.start.p_x - b.p_x) * b.v_y,
          frac_d |-> b.v_x * (s.end.p_y - s.start.p_y)]

between(lo_n, lo_d, n, d, hi_n, hi_d) ==
    Leq(lo_n, lo_d, n, d) /\ Leq(n, d, hi_n, hi_d)

\* the velocity v mirrored at an axis-parallel surface
mirrored(b, s) ==
    IF s.start.p_y = s.end.p_y THEN <<b.v_x, -b.v_y>> ELSE <<-b.v_x, b.v_y>>

\* the probe meets the surface itself, at a fraction of this frame's travel
\* within the tolerance window
probe_in_window(b, s) ==
    LET c == crossing(b, s)
    IN /\ ~c.par
       /\ between(0, 1, c.frac_n, c.frac_d, 1, 1)
       /\ between(EpsilonNum, EpsilonDen, c.lam_n, c.lam_d,
                  EpsilonDen - EpsilonNum, EpsilonDen)

\* the probe meets the surface's line within this frame's travel (both ends
\* included), at a fraction of the surface's length within the tolerance
\* window
surface_in_window(b, s) ==
    LET c == crossing(b, s)
    IN /\ ~c.par
       /\ between(0, 1, c.lam_n, c.lam_d, 1, 1)
       /\ between(EpsilonNum, EpsilonDen, c.frac_n, c.frac_d,
                  EpsilonDen - EpsilonNum, EpsilonDen)

\* C4 (as claimed): in a height_update step a bounce is triggered exactly
\* when the probe cast along the velocity meets the nearest surface and the
\* intersection's parameter along the probe, as a fraction of this frame's
\* travel, lies in [0.01, 0.99].
C4_ProbeWindow ==
    [][(op' = "height_update" /\ moving(ball)) =>
          (bounced' <=> probe_in_window(ball, surfaces[hit']))]_vars

\* C4 (amended): in a height_update step of a moving ball a bounce is
\* triggered exactly when the line of the probe meets the line of the
\* nearest surface at a point whose parameter t along the surface lies in
\* [0.01, 0.99] and whose distance u along the probe is within this frame's
\* travel, 0 <= u <= v_m; the velocity is mirrored at the surface in that
\* case and is not reflected in any other.
C4_SurfaceWindow ==
    [][op' = "height_update" =>
          LET s == surfaces[hit']
              cond == moving(ball) /\ surface_in_window(ball, s)
              after == <<ball'.v_x - ball.a_x, ball'.v_y - ball.a_y>>
          IN /\ moving(ball) => (bounced' <=> cond)
             /\ after = IF cond THEN mirrored(ball, s)
                                ELSE <<ball.v_x, ball.v_y>>]_vars

\* a step that bounced off the nearest surface, met at the very start of
\* the probe (u = 0)
C4_Witness ==
    /\ op = "height_update"
    /\ bounced
    /\ hit = 3
    /\ ball.v_y - ball.a_y > 0
    /\ ball.p_y = height * Unit + ball.v_y

\* C5: reflection preserves speed under unit restitution: with bounce
\* factors 1, bounce() leaves v_x^2 + v_y^2 unchanged, for a direct call and
\* for the call made by check_bounce, whichever surface is the closest one.
C5_ReflectionPreservesSpeed ==
    [][(/\ bounce_factor_x = 1
        /\ bounce_factor_y = 1
        /\ (op' = "bounce" \/ (op' = "height_update" /\ bounced'))) =>
          LET rx == IF op' = "bounce" THEN ball'.v_x ELSE ball'.v_x - ball.a_x
              ry == IF op' = "bounce" THEN ball'.v_y ELSE ball'.v_y - ball.a_y
          IN rx * rx + ry * ry = ball.v_x * ball.v_x + ball.v_y * ball.v_y]_vars

\* bounce() was called with an oblique velocity while the left surface was
\* the closest one, and turned the ball to the right
C5_Witness ==
    /\ op = "bounce"
    /\ hit = 4
    /\ ball.v_x > 0
    /\ ball.v_y # 0

\* C6: speed clamp: from rest, after any sequence of push_left, push_right,
\* push_up and push_down calls, the magnitude of the pushed velocity
\* component never exceeds SPEED_LIMIT_X / fps.
C6_SpeedClamp ==
    /\ Abs(ball.v_x) * fps <= SPEED_LIMIT_X * Unit
    /\ Abs(ball.v_y) * fps <= SPEED_LIMIT_X * Unit

\* C7: input actions change velocity or acceleration only: jump changes only
\* v_y, accelerate_to_gravity only a_y, push_left / push_right only v_x,
\* push_up / push_down only v_y; no other field of the ball changes.
C7_InputsChangeOneField ==
    [][/\ op' = "jump" => ball' = [ball EXCEPT !.v_y = ball'.v_y]
       /\ op' = "accelerate_to_gravity" =>
              ball' = [ball EXCEPT !.a_y = ball'.a_y]
       /\ op' \in {"push_left", "push_right"} =>
              ball' = [ball EXCEPT !.v_x = ball'.v_x]
       /\ op' \in {"push_up", "push_down"} =>
              ball' = [ball EXCEPT !.v_y = ball'.v_y]]_vars

\* jump was called on a ball that had moved away from its initial position
C7_Witness ==
    /\ op = "jump"
    /\ frame >= 1
    /\ ball.v_y < 0
    /\ ball.p_x # (width \div 2) * Unit

\* C8: the arena is fixed: in every state the surface list is the closed
\* rectangle (0,0) -> (width,0) -> (width,height) -> (0,height) -> (0,0) of
\* four surfaces of type IN, each ending where the next one starts and each
\* with the interior of the arena on its positive side.
C8_ArenaFixed ==
    LET W == width * Unit
        H == height * Unit
        corner == <<Point(0, 0), Point(W, 0), Point(W, H), Point(0, H)>>
        inside == Ball(1, 1, 0, 0, 0, 0, 0)
    IN /\ Len(surfaces) = 4
       /\ \A i \in 1..4 :
              /\ surfaces[i].start = corner[i]
              /\ surfaces[i].end = corner[(i % 4) + 1]
              /\ surfaces[i].end = surfaces[(i % 4) + 1].start
              /\ surfaces[i].surface_type = "IN"
              /\ surface_dist(inside, surfaces[i]) > 0

\* the ball has been stepped, has bounced inside a step and bounce() has
\* been called directly
C8_Witness ==
    /\ op = "bounce"
    /\ bounced
    /\ frame >= 1

\* C9: a newly constructed model holds the ball at the arena centre
\* (width // 2, height // 2) with zero velocity and zero acceleration.
C9_InitialBallAtCentre ==
    op = "init" =>
        /\ ball.p_x = (width \div 2) * Unit
        /\ ball.p_y = (height \div 2) * Unit
        /\ ball.v_x = 0 /\ ball.v_y = 0
        /\ ball.a_x = 0 /\ ball.a_y = 0

\* w is v after a push in the direction sign (1 or -1): the push is made
\* when the component along sign is below SPEED_LIMIT_X / fps and adds
\* SIDEWARD_PUSH_ACCELERATION / fps^2 along sign
pushed_by(v, w, sign) ==
    w * fps * fps =
        IF sign * v * fps < SPEED_LIMIT_X * Unit
        THEN v * fps * fps + sign * SIDEWARD_PUSH_ACCELERATION * Unit
        ELSE v * fps * fps

\* C10: frame-rate normalisation: the per-frame gravity is GRAVITY / fps^2,
\* a push adds SIDEWARD_PUSH_ACCELERATION / fps^2 to the velocity component,
\* the speed limit compared against is SPEED_LIMIT_X / fps, the jump velocity
\* is JUMP_HEIGHT / fps and the per-frame friction is
\* FRICTIONAL_CONSTANT ** (1/fps).  (Unit model units are one pixel.)
C10_FrameRateNormalisation ==
    [][/\ gravity' * fps * fps = GRAVITY * Unit
       /\ Pow(frictional_constant', fps) = FRICTIONAL_CONSTANT
       /\ op' = "accelerate_to_gravity" =>
              ball'.a_y * fps * fps = GRAVITY * Unit
       /\ op' = "jump" => ball'.v_y * fps = -(JUMP_HEIGHT * Unit)
       /\ op' = "push_right" => pushed_by(ball.v_x, ball'.v_x, 1)
       /\ op' = "push_left" => pushed_by(ball.v_x, ball'.v_x, -1)
       /\ op' = "push_down" => pushed_by(ball.v_y, ball'.v_y, 1)
       /\ op' = "push_up" => pushed_by(ball.v_y, ball'.v_y, -1)]_vars

\* a push on a ball under gravity at a frame rate for which a model unit is
\* a fraction of a pixel
C10_Witness ==
    /\ op = "push_down"
    /\ fps = 20
    /\ ball.a_y = gravity
    /\ ball.v_y > gravity

\* =====================================================================
\* Geometry kernel (physics_types.py)
\* =====================================================================
\* Arithmetic.  Coordinates and parameters are exact rationals <<n, d>> in
\* lowest terms with d > 0, so equal numbers are equal values; math.isclose
\* (relative tolerance 1e-9) and the 1e-9 paddings of the kernel are far
\* below the resolution of the inputs explored and are modelled as exact
\* comparisons.  A unit vector (x, y) / hypot(x, y) is irrational in general:
\* a Normal is held as the shortest whole vector [x, y] of its direction, its
\* components being x / hypot(x, y) and y / hypot(x, y), and a scalar t that
\* multiplies a Normal is held as rho = t / hypot(x, y), so that t * normal is
\* rho * (x, y).
Rat(n, d) ==
    LET g == GCD(Abs(n), Abs(d))
    IN IF d < 0 THEN <<(-n) \div g, (-d) \div g>> ELSE <<n \div g, d \div g>>

Whole(n) == <<n, 1>>

Zero == Whole(0)

One == Whole(1)

RAdd(a, b) == Rat(a[1] * b[2] + b[1] * a[2], a[2] * b[2])

RSub(a, b) == Rat(a[1] * b[2] - b[1] * a[2], a[2] * b[2])

RMul(a, b) == Rat(a[1] * b[1], a[2] * b[2])

\* a / b for b # 0
RDiv(a, b) == Rat(a[1] * b[2], a[2] * b[1])

RNeg(a) == <<-a[1], a[2]>>

RLeq(a, b) == a[1] * b[2] <= b[1] * a[2]

RLt(a, b) == a[1] * b[2] < b[1] * a[2]

\* a Point with whole coordinates
GridPoint(x, y) == Point(Whole(x), Whole(y))

\* Point.__eq__
Point_eq(p, q) == p.p_x = q.p_x /\ p.p_y = q.p_y

\* an exception of class c was raised
Raise(c) == [kind |-> c]

Raised(v) == v.kind \in {"ValueError", "ZeroDivisionError"}

\* the return value None
None == [kind |-> "None"]

\* a Point as a return value
Returned(p) == [kind |-> "Point", at |-> p]

\* the shortest whole vector along the rational vector (x, y) # (0, 0)
direction(x, y) ==
    LET nx == x[1] * y[2]
        ny == y[1] * x[2]
        g == GCD(Abs(nx), Abs(ny))
    IN [kind |-> "Normal",
        x |-> IF nx < 0 THEN -((-nx) \div g) ELSE nx \div g,
        y |-> IF ny < 0 THEN -((-ny) \div g) ELSE ny \div g]

\* physics_formula.normal_normalize: x / length and y / length are float
\* divisions, which raise for a zero length
normal_normalize(x, y) ==
    IF x = Zero /\ y = Zero THEN Raise("ZeroDivisionError") ELSE direction(x, y)

\* Normal.__init__ that accepts (0, 0) and gives the zero vector
Normal_lenient(x, y) ==
    IF x = Zero /\ y = Zero
    THEN [kind |-> "Normal", x |-> 0, y |-> 0]
    ELSE direction(x, y)

\* Normal.__init__
Normal(x, y) ==
    IF x = Zero /\ y = Zero THEN Raise("ValueError") ELSE direction(x, y)

\* Normal.__neg__
Normal_neg(n) == Normal(Whole(-n.x), Whole(-n.y))

\* Normal.__abs__
Normal_abs(n) == IF n.y > 0 THEN n ELSE Normal_neg(n)

\* Normal.__eq__
Normal_eq(n, m) == n.x = m.x /\ n.y = m.y

\* hypot(x, y) ** 2 of the whole vector of a Normal
norm2(n) == n.x * n.x + n.y * n.y

\* physics_formula.move_through_normal, with t = rho * hypot(x, y)
move_through_normal(point, normal, rho) ==
    Point(RAdd(point.p_x, RMul(rho, Whole(normal.x))),
          RAdd(point.p_y, RMul(rho, Whole(normal.y))))

\* physics_formula.find_virtual_intercept
find_virtual_intercept(origin, normal) ==
    IF normal.x = 0
    THEN None
    ELSE Returned(move_through_normal(origin, normal,
                      RDiv(RNeg(origin.p_x), Whole(normal.x))))

\* Segment.__init__
Segment(origin, end) ==
    LET d == normal_normalize(RSub(end.p_x, origin.p_x),
                              RSub(end.p_y, origin.p_y))
    IN IF Raised(d)
       THEN d
       ELSE IF Raised(Normal(Whole(d.x), Whole(d.y)))
            THEN Normal(Whole(d.x), Whole(d.y))
            ELSE [kind |-> "Segment", origin |-> origin, end |-> end,
                  normal |-> Normal(Whole(d.x), Whole(d.y))]

\* Line.__init__; the end a Line stores, at infinity, is not modelled
Line(origin, normal) ==
    LET intercept == find_virtual_intercept(origin, normal)
    IN [kind |-> "Line",
        origin |-> IF /\ ~Normal_eq(Normal_abs(normal), Normal(Zero, One))
                      /\ intercept.kind = "Point"
                   THEN intercept.at
                   ELSE origin,
        normal |-> IF normal.y < 0 THEN Normal_neg(normal) ELSE normal]

\* RefLine.__init__
RefLine(origin, normal) ==
    [kind |-> "RefLine", origin |-> origin, normal |-> normal]

\* Ray.__init__; the end a Ray stores, at infinity, is not modelled
Ray(origin, normal) == [kind |-> "Ray", origin |-> origin, normal |-> normal]

\* Ray.from_points
Ray_from_points(origin, end) ==
    LET d == normal_normalize(RSub(end.p_x, origin.p_x),
                              RSub(end.p_y, origin.p_y))
    IN IF Raised(d)
       THEN d
       ELSE IF Raised(Normal(Whole(d.x), Whole(d.y)))
            THEN Normal(Whole(d.x), Whole(d.y))
            ELSE Ray(origin, Normal(Whole(d.x), Whole(d.y)))

\* Vect.normdef, as the components Vect.x = magnitude * normal.x and
\* Vect.y = magnitude * normal.y of the result.  Normal(x, y) raises for
\* (0, 0).  x / normal.x and y / normal.y are both hypot(x, y), so the
\* magnitude is hypot(x, y) when a component is zero and, in the last branch,
\* (y / normal.y) + (x / normal.x) / 2 = hypot(x, y) * 3 / 2.
Vect_normdef(x, y) ==
    IF Raised(Normal(x, y))
    THEN Normal(x, y)
    ELSE LET mag == IF y = Zero \/ x = Zero THEN One ELSE Rat(3, 2)
         IN [kind |-> "Vect", x |-> RMul(mag, x), y |-> RMul(mag, y)]

\* physics_formula.cross_product of two Vects
cross_product(v, w) == RSub(RMul(v.x, w.y), RMul(w.x, v.y))

\* math.nan as a location
NaN == [nan |-> TRUE, rho |-> Zero]

\* a location t = rho * hypot(normal)
Loc(rho) == [nan |-> FALSE, rho |-> rho]

\* physics_formula.loc_on_line
loc_on_line(point, line) ==
    LET origin == line.origin
        normal == line.normal
        tx == RDiv(RSub(point.p_x, origin.p_x), Whole(normal.x))
        ty == RDiv(RSub(point.p_y, origin.p_y), Whole(normal.y))
    IN IF normal.x = 0
       THEN IF point.p_x = origin.p_x THEN Loc(ty) ELSE NaN
       ELSE IF normal.y = 0
       THEN IF point.p_y = origin.p_y THEN Loc(tx) ELSE NaN
       ELSE IF tx = ty THEN Loc(RDiv(RAdd(tx, ty), Whole(2))) ELSE NaN

\* scalar_bounds of AbstractFinitePath, Line and Ray; an infinite bound is
\* marked by below / above = FALSE
scalar_bounds(path) ==
    CASE path.kind = "Segment" ->
             [below |-> TRUE, t_min |-> Zero, above |-> TRUE, t_max |-> One]
      [] path.kind = "Ray" ->
             [below |-> TRUE, t_min |-> Zero, above |-> FALSE, t_max |-> Zero]
      [] OTHER ->
             [below |-> FALSE, t_min |-> Zero, above |-> FALSE, t_max |-> Zero]

\* t_min - ep <= t <= t_max + ep
in_bounds(t, bounds) ==
    /\ bounds.below => RLeq(bounds.t_min, t)
    /\ bounds.above => RLeq(t, bounds.t_max)

\* t_min - ep <= t <= t_max + ep for t = rho * hypot(normal), where
\* hypot(normal) ** 2 = n2; t_min is 0 wherever there is a lower bound
in_bounds_scaled(rho, n2, bounds) ==
    /\ bounds.below => RLeq(Zero, rho)
    /\ bounds.above =>
           \/ RLeq(rho, Zero)
           \/ RLeq(RMul(RMul(rho, rho), Whole(n2)),
                   RMul(bounds.t_max, bounds.t_max))

\* physics_formula.contains_check (AbstractPath.__contains__)
contains_check(p, path) ==
    LET ref_line == RefLine(path.origin, path.normal)
        t == loc_on_line(p, ref_line)
    IN IF ~t.nan /\ t.rho = Zero
       THEN TRUE
       ELSE IF t.nan
            THEN FALSE
            ELSE in_bounds_scaled(t.rho, norm2(path.normal),
                                  scalar_bounds(path))

\* AbstractFinitePath.length (physics_formula.line_length), as the rho with
\* length = rho * hypot(normal)
length(path) ==
    IF path.normal.x # 0
    THEN RDiv(RSub(path.end.p_x, path.origin.p_x), Whole(path.normal.x))
    ELSE RDiv(RSub(path.end.p_y, path.origin.p_y), Whole(path.normal.y))

RMin(a, b) == IF RLeq(a, b) THEN a ELSE b

RMax(a, b) == IF RLeq(a, b) THEN b ELSE a

\* Rounding.  A Normal with two non-zero components is irrational, the float
\* that holds it is not, and the float product (t * length) * normal.x is the
\* exact distance only up to the last place: 9.899494936611665 *
\* 0.7071067811865476 is 7.000000000000001.  Which way a product rounds is
\* not computed here: it is a choice of -1 (below), 0 (exact) or 1 (above)
\* for each coordinate.  A product with a zero factor or with an
\* axis-parallel Normal (components 0 and 1) is exact.
exact == [x |-> 0, y |-> 0]

rounding(path, t) ==
    IF path.kind = "Segment" /\ path.normal.x # 0 /\ path.normal.y # 0
                             /\ t # Zero
    THEN {[x |-> ex, y |-> ey] : ex \in {-1, 0, 1}, ey \in {-1, 0, 1}}
    ELSE {exact}

\* lo <= v for the float that holds v rounded as e
float_geq(v, e, lo) == RLt(lo, v) \/ (lo = v /\ e >= 0)

\* v <= hi for the float that holds v rounded as e
float_leq(v, e, hi) == RLt(v, hi) \/ (v = hi /\ e <= 0)

\* AbstractFinitePath.point_at_t, Line.point_at_t and Ray.point_at_t; for a
\* Segment t is a fraction of the length, for a Line or Ray t is
\* rho * hypot(normal); e is the rounding of the coordinates of p, and the
\* Point returned is held by its exact coordinates
point_at_t(path, t, e) ==
    CASE path.kind = "Segment" ->
             LET p == move_through_normal(path.origin, path.normal,
                                          RMul(t, length(path)))
                 x_min == RMin(path.origin.p_x, path.end.p_x)
                 x_max == RMax(path.origin.p_x, path.end.p_x)
                 y_min == RMin(path.origin.p_y, path.end.p_y)
                 y_max == RMax(path.origin.p_y, path.end.p_y)
             IN IF /\ float_geq(p.p_x, e.x, x_min)
                   /\ float_leq(p.p_x, e.x, x_max)
                   /\ float_geq(p.p_y, e.y, y_min)
                   /\ float_leq(p.p_y, e.y, y_max)
                THEN Returned(p)
                ELSE None
      [] path.kind = "Ray" ->
             IF RLt(t, Zero)
             THEN None
             ELSE Returned(move_through_normal(path.origin, path.normal, t))
      [] OTHER -> Returned(move_through_normal(path.origin, path.normal, t))

\* Segment.__eq__
Segment_eq(self, other) ==
    /\ Point_eq(self.origin, other.end) \/ Point_eq(self.end, other.end)
    /\ Normal_eq(Normal_abs(self.normal), Normal_abs(other.normal))

\* physics_formula.check_instance_return_point.  For a Line or a Ray the
\* point is one step of the normal from the origin; the step is taken as the
\* whole vector of the normal, so that the parameters intersects_check
\* returns for a Line or a Ray are rho = t / hypot(normal)
check_instance_return_point(a) ==
    IF a.kind \in {"Line", "Ray"}
    THEN move_through_normal(a.origin, a.normal, One)
    ELSE a.end

\* vector(p1, p2) of intersects_check
vector(p1, p2) ==
    Vect_normdef(RSub(p2.p_x, p1.p_x), RSub(p2.p_y, p1.p_y))

\* physics_formula.intersects_check: (t, u), with inf for (inf, inf)
intersects_check(a, b) ==
    LET p == a.origin
        r == vector(a.origin, check_instance_return_point(a))
        q == b.origin
        s == vector(b.origin, check_instance_return_point(b))
        q_minus_p == Vect_normdef(RSub(q.p_x, p.p_x), RSub(q.p_y, p.p_y))
    IN IF Raised(q_minus_p)
       THEN q_minus_p
       ELSE LET r_cross_s == cross_product(r, s)
                qmp_cross_r == cross_product(q_minus_p, r)
            IN IF r_cross_s = Zero
               THEN IF qmp_cross_r = Zero
                    THEN [kind |-> "tu", inf |-> FALSE, t |-> Zero, u |-> Zero]
                    ELSE [kind |-> "tu", inf |-> TRUE, t |-> Zero, u |-> Zero]
               ELSE [kind |-> "tu", inf |-> FALSE,
                     t |-> RDiv(cross_product(q_minus_p, s), r_cross_s),
                     u |-> RDiv(cross_product(q_minus_p, r), r_cross_s)]

\* sorted(data, key=key) of compare_ending_paths: the points in the order of
\* their locations on ref_line; the sort is stable
sorted_points(points, ref_line) ==
    LET key(i) == loc_on_line(points[i], ref_line).rho
        rank(i) == Cardinality({j \in 1..Len(points) :
                                   \/ RLt(key(j), key(i))
                                   \/ key(j) = key(i) /\ j < i})
    IN [k \in 1..Len(points) |->
           points[CHOOSE i \in 1..Len(points) : rank(i) = k - 1]]

\* physics_formula.compare_ending_paths, for two Segments
compare_ending_paths(a, b) ==
    LET points == <<a.origin, a.end, b.origin, b.end>>
        ref_line == RefLine(a.origin, a.normal)
        sorted == sorted_points(points, ref_line)
        p1 == sorted[2]
        p2 == sorted[3]
        test_seg == Segment(p1, p2)
    IN IF Point_eq(p1, p2)
       THEN Returned(p1)
       ELSE IF Segment_eq(test_seg, a) \/ Segment_eq(test_seg, b)
            THEN test_seg
            ELSE IF /\ contains_check(p1, a) /\ contains_check(p2, b)
                    /\ contains_check(p1, b) /\ contains_check(p2, a)
                 THEN Segment(p1, p2)
                 ELSE None

\* physics_formula.check_collinear, for Segments and Lines
check_collinear(a, b) ==
    LET ref_a == Line(a.origin, a.normal)
        ref_b == Line(b.origin, b.normal)
    IN IF \/ ~Normal_eq(Normal_abs(a.normal), Normal_abs(b.normal))
          \/ ~contains_check(a.origin, ref_b)
          \/ ~contains_check(b.origin, ref_a)
       THEN None
       ELSE IF a.kind = "Segment" /\ b.kind = "Segment"
            THEN compare_ending_paths(a, b)
            ELSE IF a.kind = "Segment" \/ b.kind = "Segment"
                 THEN IF a.kind = "Segment" THEN a ELSE b
                 ELSE a

\* physics_formula.intersects_line (AbstractObject.intersects of two paths),
\* for Segments and Lines; the rounding of a.point_at_t is not explored
\* here
intersects_line(a, b) ==
    LET c == check_collinear(a, b)
        tu == intersects_check(a, b)
    IN IF c.kind # "None"
       THEN c
       ELSE IF Raised(tu)
            THEN tu
            ELSE IF tu.inf
                 THEN None
                 ELSE IF /\ in_bounds(tu.t, scalar_bounds(a))
                         /\ in_bounds(tu.u, scalar_bounds(b))
                      THEN point_at_t(a, tu.t, exact)
                      ELSE None

\* ---------------------------------------------------------------------
\* Calls of the geometry kernel
\* ---------------------------------------------------------------------
\* arguments explored
XCoords == {0, 2, 4, 6}

YCoords == {0, 2, 4, 6}

PointSet == {GridPoint(x, y) : x \in XCoords, y \in YCoords}

SegmentSet == {Segment(e[1], e[2]) :
                  e \in {f \in PointSet \X PointSet : f[1] # f[2]}}

CompassSet == {<<1, 0>>, <<-1, 0>>, <<0, 1>>, <<0, -1>>,
               <<1, 1>>, <<-1, -1>>, <<1, -1>>, <<-1, 1>>}

LineOriginSet == {GridPoint(0, 0), GridPoint(0, 5), GridPoint(2, 2)}

LineSet == {Line(o, Normal(Whole(d[1]), Whole(d[2]))) :
               o \in LineOriginSet, d \in CompassSet}

PathSet == SegmentSet \cup LineSet

\* the simulation's variables, which a call of the kernel leaves alone
simulation == <<config, ball, op, bounced, hit, turned, frame, keys>>

\* a.intersects(b) for two paths
intersects ==
    /\ call.fn = "none"
    /\ \E a \in PathSet, b \in PathSet :
           /\ call' = [fn |-> "intersects", a |-> a, b |-> b]
           /\ ret' = intersects_line(a, b)
    /\ UNCHANGED simulation

\* the whole displacement end - origin of a Segment
span(s) == [x |-> RSub(s.end.p_x, s.origin.p_x),
            y |-> RSub(s.end.p_y, s.origin.p_y)]

\* AbstractPath.__eq__ (Line, Ray)
Path_eq(self, other) ==
    /\ other.kind = self.kind
    /\ Point_eq(self.origin, other.origin)
    /\ Normal_eq(self.normal, other.normal)

\* a bool as a return value
Bool(b) == [kind |-> "bool", value |-> b]

\* fractions of a Segment's length explored
FractionSet == {Rat(-1, 2), Zero, Rat(1, 4), Rat(1, 2), Rat(3, 4), One,
                Rat(3, 2)}

\* components of Normal(x, y) explored
ComponentSet == -2..2

\* the point of the line of Segment s at the fraction t of its displacement
\* from its origin
point_on(s, t) ==
    Point(RAdd(s.origin.p_x, RMul(t, span(s).x)),
          RAdd(s.origin.p_y, RMul(t, span(s).y)))

\* point in s (AbstractPath.__contains__), for a point of the line of s
contains ==
    /\ call.fn = "none"
    /\ \E s \in SegmentSet, t \in FractionSet :
           /\ call' = [fn |-> "contains", path |-> s, t |-> t,
                       point |-> point_on(s, t)]
           /\ ret' = Bool(contains_check(point_on(s, t), s))
    /\ UNCHANGED simulation

\* a == b for two Segments
segment_eq ==
    /\ call.fn = "none"
    /\ \E a \in SegmentSet, b \in SegmentSet :
           /\ call' = [fn |-> "segment_eq", a |-> a, b |-> b]
           /\ ret' = Bool(Segment_eq(a, b))
    /\ UNCHANGED simulation

\* Line(p, Normal(d)) == Line(q, Normal(e))
line_eq ==
    /\ call.fn = "none"
    /\ \E p \in PointSet, q \in PointSet, d \in CompassSet, e \in CompassSet :
           /\ call' = [fn |-> "line_eq", p |-> p, d |-> d, q |-> q, e |-> e,
                       a |-> Line(p, Normal(Whole(d[1]), Whole(d[2]))),
                       b |-> Line(q, Normal(Whole(e[1]), Whole(e[2])))]
           /\ ret' = Bool(Path_eq(Line(p, Normal(Whole(d[1]), Whole(d[2]))),
                                  Line(q, Normal(Whole(e[1]), Whole(e[2])))))
    /\ UNCHANGED simulation

\* Normal(x, y)
new_normal ==
    /\ call.fn = "none"
    /\ \E x \in ComponentSet, y \in ComponentSet :
           /\ call' = [fn |-> "Normal", x |-> x, y |-> y]
           /\ ret' = Normal(Whole(x), Whole(y))
    /\ UNCHANGED simulation

\* Segment(p, q)
new_segment ==
    /\ call.fn = "none"
    /\ \E p \in PointSet, q \in PointSet :
           /\ call' = [fn |-> "Segment", p |-> p, q |-> q]
           /\ ret' = Segment(p, q)
    /\ UNCHANGED simulation

\* Ray.from_points(p, q)
ray_from_points ==
    /\ call.fn = "none"
    /\ \E p \in PointSet, q \in PointSet :
           /\ call' = [fn |-> "Ray.from_points", p |-> p, q |-> q]
           /\ ret' = Ray_from_points(p, q)
    /\ UNCHANGED simulation

\* abs(n) for a Normal n
normal_abs ==
    /\ call.fn = "none"
    /\ \E x \in ComponentSet, y \in ComponentSet :
           /\ ~(x = 0 /\ y = 0)
           /\ call' = [fn |-> "abs", n |-> Normal(Whole(x), Whole(y))]
           /\ ret' = Normal_abs(Normal(Whole(x), Whole(y)))
    /\ UNCHANGED simulation

\* the vertices a Shape is built from
ShapePointSet ==
    {GridPoint(0, 0), GridPoint(2, 0), GridPoint(2, 2), GridPoint(0, 2),
     GridPoint(2, 4), GridPoint(4, 2)}

MaxVertices == 5

\* the argument lists *points of Shape
VertexLists ==
    UNION {[1..n -> ShapePointSet] : n \in 0..MaxVertices}

\* points[(i+1) % n] for the 1-based index i
following(points, i) == points[(i % Len(points)) + 1]

\* the vector from (0, 0) to a Point
place(p) == [x |-> p.p_x, y |-> p.p_y]

\* the sum over i = 1..k of f[i]
RECURSIVE RSum(_, _)
RSum(f, k) == IF k = 0 THEN Zero ELSE RAdd(RSum(f, k - 1), f[k])

\* physics_formula.locate_center: Cx /= (6*area) is a float division, which
\* raises for a zero area
locate_center(vertices) ==
    LET n == Len(vertices)
        cross == [i \in 1..n |->
                     cross_product(place(vertices[i]),
                                   place(following(vertices, i)))]
        area == RMul(Rat(1, 2), RSum(cross, n))
        Cx == RSum([i \in 1..n |->
                       RMul(RAdd(vertices[i].p_x,
                                 following(vertices, i).p_x), cross[i])], n)
        Cy == RSum([i \in 1..n |->
                       RMul(RAdd(vertices[i].p_y,
                                 following(vertices, i).p_y), cross[i])], n)
    IN IF area = Zero
       THEN Raise("ZeroDivisionError")
       ELSE Returned(Point(RDiv(Cx, RMul(Whole(6), area)),
                           RDiv(Cy, RMul(Whole(6), area))))

\* Shape.__init__ on an object of the class subtype
Shape_init(subtype, points) ==
    LET n == Len(points)
        edges == [i \in 1..n |-> Segment(points[i], following(points, i))]
    IN IF \E i \in 1..n : Raised(edges[i])
       THEN edges[CHOOSE i \in 1..n :
                      /\ Raised(edges[i])
                      /\ \A j \in 1..(i - 1) : ~Raised(edges[j])]
       ELSE IF Raised(locate_center(points))
            THEN locate_center(points)
            ELSE [kind |-> subtype, center |-> locate_center(points).at,
                  vertices |-> points, edges |-> edges]

\* abs(Segment(p, q).normal) == abs(Segment(r, s).normal) of Shape.__new__
same_abs_normal(p, q, r, s) ==
    IF Raised(Segment(p, q))
    THEN Segment(p, q)
    ELSE IF Raised(Segment(r, s))
         THEN Segment(r, s)
         ELSE Bool(Normal_eq(Normal_abs(Segment(p, q).normal),
                             Normal_abs(Segment(r, s).normal)))

\* Shape.__new__
Shape_new(points) ==
    CASE Len(points) = 0 -> None
      [] Len(points) = 1 -> Returned(points[1])
      [] Len(points) = 2 -> Segment(points[1], points[2])
      [] Len(points) = 3 -> Shape_init("Triangle", points)
      [] Len(points) = 4 ->
             LET first == same_abs_normal(points[1], points[2],
                                          points[3], points[4])
                 second == same_abs_normal(points[1], points[4],
                                           points[2], points[3])
             IN IF Raised(first)
                THEN first
                ELSE IF ~first.value
                     THEN Shape_init("Polygon", points)
                     ELSE IF Raised(second)
                          THEN second
                          ELSE IF second.value
                               THEN Shape_init("QuadReg", points)
                               ELSE Shape_init("Polygon", points)
      [] OTHER -> Shape_init("Polygon", points)

\* Shape(*points)
shape ==
    /\ call.fn = "none"
    /\ \E points \in VertexLists :
           /\ call' = [fn |-> "Shape", points |-> points]
           /\ ret' = Shape_new(points)
    /\ UNCHANGED simulation

\* the number of vertices that approximate a Circle
segments == 32

\* the radii passed to Circle
RadiusSet == {Rat(-5, 2), Whole(-2), Whole(-1), Zero, Rat(1, 2), One, Whole(2)}

\* abs of a number
RAbs(a) == IF a[1] < 0 THEN RNeg(a) ELSE a

\* Circle.approximate_vertices: vertex i is center + radius * (cos, sin) of
\* the angle 2 * pi * i / segments, which is irrational for most i; a vertex
\* is held as the centre, the radius and the step i of its angle
approximate_vertices(center, radius) ==
    [i \in 1..segments |->
        [center |-> center, radius |-> radius, step |-> i - 1]]

\* two vertices of a circle are the same Point: the segments angles are
\* distinct, so two vertices of one circle coincide only at the same step or
\* for radius 0
same_vertex(v, w) ==
    /\ v.center = w.center
    /\ v.radius = w.radius
    /\ (v.step = w.step \/ v.radius = Zero)

\* Circle.approximate_edge: Segment(p1, p2) of consecutive vertices, which
\* raises for coincident points (normal_normalize); the irrational normal of
\* an edge is not held
approximate_edge(center, radius) ==
    LET vertices == approximate_vertices(center, radius)
    IN IF \E i \in 1..segments :
              same_vertex(vertices[i], vertices[(i % segments) + 1])
       THEN Raise("ZeroDivisionError")
       ELSE [kind |-> "edges",
             of |-> [i \in 1..segments |->
                        [origin |-> vertices[i],
                         end |-> vertices[(i % segments) + 1]]]]

\* Circle.__init__
Circle(center, radius) ==
    IF Raised(approximate_edge(center, RAbs(radius)))
    THEN approximate_edge(center, RAbs(radius))
    ELSE [kind |-> "Circle", center |-> center, radius |-> RAbs(radius),
          edges |-> approximate_edge(center, RAbs(radius)).of,
          vertices |-> approximate_vertices(center, RAbs(radius))]

\* Circle(center, radius)
new_circle ==
    /\ call.fn = "none"
    /\ \E center \in ShapePointSet, radius \in RadiusSet :
           /\ call' = [fn |-> "Circle", center |-> center, radius |-> radius]
           /\ ret' = Circle(center, radius)
    /\ UNCHANGED simulation

\* the Segments of point_at_t: those along an axis, and oblique ones
AxisSegmentSet ==
    {s \in SegmentSet : s.normal.x = 0 \/ s.normal.y = 0}

ObliqueSegmentSet ==
    {Segment(GridPoint(0, 0), GridPoint(7, 7)),
     Segment(GridPoint(7, 7), GridPoint(0, 0)),
     Segment(GridPoint(0, 0), GridPoint(5, 7)),
     Segment(GridPoint(0, 7), GridPoint(7, 0)),
     Segment(GridPoint(2, 0), GridPoint(7, 7))}

RaySet == {Ray(o, Normal(Whole(d[1]), Whole(d[2]))) :
              o \in LineOriginSet, d \in CompassSet}

\* path.point_at_t(t) for a Segment or a Ray
point_at ==
    /\ call.fn = "none"
    /\ \E path \in AxisSegmentSet \cup ObliqueSegmentSet \cup RaySet,
          t \in FractionSet :
           \E e \in rounding(path, t) :
               /\ call' = [fn |-> "point_at_t", path |-> path, t |-> t,
                           rounding |-> e]
               /\ ret' = point_at_t(path, t, e)
    /\ UNCHANGED simulation

\* Vect.__neg__
Vect_neg(v) == Vect_normdef(RNeg(v.x), RNeg(v.y))

\* Vect.__eq__: the magnitudes, which are positive, are equal when their
\* squares x ** 2 + y ** 2 are, and the normals are equal
Vect_eq(self, other) ==
    /\ other.kind = "Vect"
    /\ RAdd(RMul(self.x, self.x), RMul(self.y, self.y))
           = RAdd(RMul(other.x, other.x), RMul(other.y, other.y))
    /\ Normal_eq(Normal(self.x, self.y), Normal(other.x, other.y))

\* components of Vect.normdef(x, y) explored
VectComponentSet == -3..3

\* Vect.normdef(x, y)
vect_normdef ==
    /\ call.fn = "none"
    /\ \E x \in VectComponentSet, y \in VectComponentSet :
           /\ call' = [fn |-> "Vect.normdef", x |-> x, y |-> y]
           /\ ret' = Vect_normdef(Whole(x), Whole(y))
    /\ UNCHANGED simulation

InitKernel == Construct("PhysicsModel", 10, 40, 50)

NextKernel ==
    \/ intersects
    \/ contains
    \/ segment_eq
    \/ line_eq
    \/ new_normal
    \/ new_segment
    \/ ray_from_points
    \/ normal_abs
    \/ shape
    \/ new_circle
    \/ point_at
    \/ vect_normdef

SpecKernel == InitKernel /\ [][NextKernel]_vars

\* --- properties of intersects ---
\* two Segments are not parallel
non_parallel(a, b) == cross_product(span(a), span(b)) # Zero

\* the point the lines of two non-parallel Segments have in common, as the
\* fractions t of a and u of b at which it lies and the point itself
crossing_point(a, b) ==
    LET qp == [x |-> RSub(b.origin.p_x, a.origin.p_x),
               y |-> RSub(b.origin.p_y, a.origin.p_y)]
        den == cross_product(span(a), span(b))
        t == RDiv(cross_product(qp, span(b)), den)
        u == RDiv(cross_product(qp, span(a)), den)
    IN [t |-> t, u |-> u,
        at |-> Point(RAdd(a.origin.p_x, RMul(t, span(a).x)),
                     RAdd(a.origin.p_y, RMul(t, span(a).y)))]

\* two non-parallel Segments cross: their common point lies on both
crosses(a, b) ==
    /\ non_parallel(a, b)
    /\ RLeq(Zero, crossing_point(a, b).t) /\ RLeq(crossing_point(a, b).t, One)
    /\ RLeq(Zero, crossing_point(a, b).u) /\ RLeq(crossing_point(a, b).u, One)

both_segments == call.a.kind = "Segment" /\ call.b.kind = "Segment"

\* C11: intersection correctness -- for two non-parallel segments that
\* cross, intersects returns their geometric crossing point; in particular
\* Segment((0,0),(4,4)).intersects(Segment((0,4),(4,0))) is Point(2,2).
C11_IntersectionCorrect ==
    (call.fn = "intersects" /\ both_segments /\ crosses(call.a, call.b)) =>
        ret = Returned(crossing_point(call.a, call.b).at)

\* the direction of a path as a vector: the displacement of a Segment, the
\* whole vector of the normal of a Line
heading(path) ==
    IF path.kind = "Segment"
    THEN span(path)
    ELSE [x |-> Whole(path.normal.x), y |-> Whole(path.normal.y)]

\* the displacement from point p to point q
from_to(p, q) == [x |-> RSub(q.p_x, p.p_x), y |-> RSub(q.p_y, p.p_y)]

\* two paths lie on one line
collinear(a, b) ==
    /\ cross_product(heading(a), heading(b)) = Zero
    /\ cross_product(from_to(a.origin, b.origin), heading(a)) = Zero

\* two paths are parallel and lie on different lines
parallel_apart(a, b) ==
    /\ cross_product(heading(a), heading(b)) = Zero
    /\ cross_product(from_to(a.origin, b.origin), heading(a)) # Zero

\* the position of point p along the direction of Segment a
along(p, a) ==
    RAdd(RMul(from_to(a.origin, p).x, span(a).x),
         RMul(from_to(a.origin, p).y, span(a).y))

\* the endpoints of Segment s that come first and last along Segment a
first_end(s, a) ==
    IF RLeq(along(s.origin, a), along(s.end, a)) THEN s.origin ELSE s.end

last_end(s, a) ==
    IF RLeq(along(s.origin, a), along(s.end, a)) THEN s.end ELSE s.origin

\* of the four endpoints of two collinear Segments ordered along a, the
\* second and the third when the extents meet: the later of the two first
\* ends and the earlier of the two last ends
inner_first(a, b) ==
    IF RLeq(along(first_end(a, a), a), along(first_end(b, a), a))
    THEN first_end(b, a) ELSE first_end(a, a)

inner_last(a, b) ==
    IF RLeq(along(last_end(a, a), a), along(last_end(b, a), a))
    THEN last_end(a, a) ELSE last_end(b, a)

\* two collinear Segments have no point in common
extents_disjoint(a, b) ==
    RLt(along(inner_last(a, b), a), along(inner_first(a, b), a))

\* two collinear Segments have exactly one point in common
extents_touch(a, b) == inner_first(a, b) = inner_last(a, b)

\* two collinear Segments overlap in more than a point and each has an end
\* outside the other
extents_partially_overlap(a, b) ==
    /\ RLt(along(inner_first(a, b), a), along(inner_last(a, b), a))
    /\ along(first_end(a, a), a) # along(first_end(b, a), a)
    /\ along(last_end(a, a), a) # along(last_end(b, a), a)
    /\ (inner_first(a, b) = first_end(a, a)) = (inner_last(a, b) = last_end(b, a))

\* C12: collinear overlap -- for two collinear segments whose extents
\* partially overlap, intersects returns the segment spanning the middle two
\* of the four endpoints ordered along the shared direction (for
\* Segment((0,0),(4,0)) and Segment((2,0),(6,0)) it is Segment((2,0),(4,0))),
\* and two collinear segments touching in exactly one point give that point.
C12_CollinearOverlap ==
    (call.fn = "intersects" /\ both_segments /\ collinear(call.a, call.b)) =>
        /\ extents_partially_overlap(call.a, call.b) =>
               /\ ret.kind = "Segment"
               /\ {ret.origin, ret.end} =
                      {inner_first(call.a, call.b), inner_last(call.a, call.b)}
        /\ extents_touch(call.a, call.b) =>
               ret = Returned(inner_first(call.a, call.b))

\* C13: paths with no common point have no intersection -- for two parallel
\* lines at different offsets and for two collinear segments whose extents
\* are disjoint, in either orientation, intersects returns None rather than
\* a point or a segment.
C13_NoCommonPointGivesNone ==
    (/\ call.fn = "intersects"
     /\ \/ /\ call.a.kind = "Line" /\ call.b.kind = "Line"
           /\ parallel_apart(call.a, call.b)
        \/ /\ both_segments
           /\ collinear(call.a, call.b)
           /\ extents_disjoint(call.a, call.b)) =>
        ret = None

\* C14: intersection never raises -- for every pair of validly constructed
\* paths, including pairs that are parallel, that miss each other or that
\* start at the same origin point, intersects returns a Point, a path or
\* None as an ordinary value and raises no exception.
C14_IntersectsNeverRaises ==
    call.fn = "intersects" => ~Raised(ret)

\* --- properties of containment, equality and construction ---
\* C15: containment round-trip -- for every Segment s of any length and
\* every t in [0,1], s.point_at_t(t) is contained in s; for a point on the
\* segment's infinite extension whose parameter lies outside [0,1] by more
\* than 1e-9, containment is false.
C15_ContainmentRoundTrip ==
    call.fn = "contains" =>
        IF RLeq(Zero, call.t) /\ RLeq(call.t, One)
        THEN /\ point_at_t(call.path, call.t, exact) = Returned(call.point)
             /\ ret.value
        ELSE ~ret.value

\* C16: Segment endpoint symmetry -- for all distinct points p and q
\* (including horizontally and vertically aligned pairs),
\* Segment(p, q) == Segment(q, p).
C16_SegmentEndpointSymmetry ==
    (/\ call.fn = "segment_eq"
     /\ call.a.origin = call.b.end
     /\ call.a.end = call.b.origin) => ret.value

\* C17: Line canonicalisation -- for every point p and every direction d
\* (including horizontal directions with d.y = 0), Line(p, d) == Line(p, -d);
\* the stored direction of a Line has a non-negative y component.
C17_LineCanonicalisation ==
    call.fn = "line_eq" =>
        /\ call.a.normal.y >= 0
        /\ call.b.normal.y >= 0
        /\ (call.p = call.q /\ call.e = <<-call.d[1], -call.d[2]>>) =>
               ret.value

\* a Normal that is not the zero vector
non_zero(n) == n.kind = "Normal" /\ (n.x # 0 \/ n.y # 0)

C19_AbsCanonicalises ==
    call.fn = "abs" =>
        /\ ret.y >= 0
        /\ Normal_eq(ret, Normal_abs(Normal_neg(call.n)))
        /\ Normal_eq(Normal_abs(ret), ret)
\* --- properties of Shape ---

\* the vertices are a proper outline: consecutive vertices differ and the
\* enclosed signed area is not zero
outline(points) ==
    /\ Len(points) >= 2 =>
           \A i \in 1..Len(points) : points[i] # following(points, i)
    /\ Len(points) >= 3 =>
           RSum([i \in 1..Len(points) |->
                    cross_product(place(points[i]),
                                  place(following(points, i)))],
                Len(points)) # Zero

\* the edge from p to q and the edge from r to s are parallel
edges_parallel(p, q, r, s) ==
    cross_product([x |-> RSub(q.p_x, p.p_x), y |-> RSub(q.p_y, p.p_y)],
                  [x |-> RSub(s.p_x, r.p_x), y |-> RSub(s.p_y, r.p_y)]) = Zero

\* both pairs of opposite edges of the four points are parallel
parallelogram(points) ==
    /\ edges_parallel(points[1], points[2], points[3], points[4])
    /\ edges_parallel(points[1], points[4], points[2], points[3])

\* C20: the Shape factory dispatches on the number of points -- Shape() gives
\* None, one point gives that point, two points give the Segment between
\* them, three give a Triangle, four give a QuadReg whenever both pairs of
\* opposite edges are parallel (every parallelogram, axis-aligned rectangles
\* included) and a general Polygon otherwise, five or more give a general
\* Polygon.
C20_ShapeDispatch ==
    (call.fn = "Shape" /\ outline(call.points)) =>
        CASE Len(call.points) = 0 -> ret = None
          [] Len(call.points) = 1 -> ret = Returned(call.points[1])
          [] Len(call.points) = 2 ->
                 /\ ret.kind = "Segment"
                 /\ ret.origin = call.points[1]
                 /\ ret.end = call.points[2]
          [] Len(call.points) = 3 ->
                 ret.kind = "Triangle" /\ ret.vertices = call.points
          [] Len(call.points) = 4 ->
                 /\ ret.kind = IF parallelogram(call.points)
                               THEN "QuadReg"
                               ELSE "Polygon"
                 /\ ret.vertices = call.points
          [] OTHER -> ret.kind = "Polygon" /\ ret.vertices = call.points
\* --- properties of Circle ---

\* C21: invalid circles are rejected -- constructing a Circle with a radius
\* <= 0 fails at construction: no Circle object is produced, and the radius
\* is not silently coerced to a positive value.
C21_InvalidCircleRejected ==
    (call.fn = "Circle" /\ RLeq(call.radius, Zero)) => Raised(ret)
\* --- properties of point_at_t ---

\* C22: Segment parametrisation -- for every Segment s and t in [0,1],
\* s.point_at_t(t) = origin + t * length * direction, so point_at_t(0) is the
\* origin and point_at_t(1) is the end; for t outside [0,1] point_at_t yields
\* no point (None); for a Ray, point_at_t(t) yields no point exactly when
\* t < 0.
C22_SegmentParametrisation ==
    call.fn = "point_at_t" =>
        /\ call.path.kind = "Segment" =>
               IF RLeq(Zero, call.t) /\ RLeq(call.t, One)
               THEN /\ ret = Returned(point_on(call.path, call.t))
                    /\ call.t = Zero => ret = Returned(call.path.origin)
                    /\ call.t = One => ret = Returned(call.path.end)
               ELSE ret = None
        /\ call.path.kind = "Ray" => (ret = None <=> RLt(call.t, Zero))
\* --- properties of the nearest surface ---

\* the perpendicular distances of a ball centre from the top, right, bottom
\* and left walls of the arena
wall_distances(b) ==
    <<b.p_y, width * Unit - b.p_x, height * Unit - b.p_y, b.p_x>>

\* C23: nearest-surface selection -- for a ball centre inside the default
\* arena, ball_dist_from_every_surface returns the non-negative
\* perpendicular distances [p_y, width - p_x, height - p_y, p_x] to the top,
\* right, bottom and left walls, and closest_surface is the wall with the
\* minimum of these distances, the earliest in list order on ties; only that
\* surface is tested for a bounce in a step: the velocity is mirrored at it
\* when the step bounces and is not reflected otherwise.
C23_NearestSurface ==
    [][(op' = "height_update" /\ in_arena(ball)) =>
          LET d == wall_distances(ball)
              after == <<ball'.v_x - ball.a_x, ball'.v_y - ball.a_y>>
          IN /\ ball_dist_from_every_surface(ball, surfaces) = d
             /\ \A i \in 1..4 : d[i] >= 0
             /\ ball_dist_from_next_surface(ball, surfaces) = d[hit']
             /\ \A i \in 1..4 : d[hit'] <= d[i]
             /\ \A i \in 1..(hit' - 1) : d[hit'] < d[i]
             /\ after = IF bounced'
                        THEN mirrored(ball, surfaces[hit'])
                        ELSE <<ball.v_x, ball.v_y>>]_vars

\* a step of a ball at rest at the centre of an arena that is higher than
\* wide: the right and the left wall are equally near, the right wall comes
\* first in the list
C23_Witness ==
    /\ op = "height_update"
    /\ width < height
    /\ ball.v_x = 0
    /\ ball.v_y = 0
    /\ 2 * ball.p_x = width * Unit
    /\ 2 * ball.p_y = height * Unit
    /\ hit = 2
\* --- properties of the reflection ---

\* the inward normal of the walls of the arena: top, right, bottom, left
inward_normal(i) ==
    CASE i = 1 -> <<0, 1>>
      [] i = 2 -> <<-1, 0>>
      [] i = 3 -> <<0, -1>>
      [] i = 4 -> <<1, 0>>

\* the component of the velocity (vx, vy) along the inward normal of wall i
inward(vx, vy, i) == vx * inward_normal(i)[1] + vy * inward_normal(i)[2]

\* C24: a bounce always turns the ball back into the arena -- in every state
\* reachable by any interleaving of height_update, accelerate_to_gravity,
\* jump and push_* calls, whenever a step triggers a bounce off an
\* inward-facing surface, the velocity right after the reflection has a
\* non-negative component along that surface's inward normal: the ball is
\* never reflected outward, and no bounce is triggered while the ball moves
\* away from the nearest surface.
C24_BounceTurnsInward ==
    [][(op' = "height_update" /\ bounced'
                              /\ surfaces[hit'].surface_type = "IN") =>
          /\ inward(ball'.v_x - ball.a_x, ball'.v_y - ball.a_y, hit') >= 0
          /\ inward(ball.v_x, ball.v_y, hit') <= 0]_vars
\* --- properties of Vect ---

\* C25: vector component round-trip -- for every non-zero (x, y), including
\* vectors with both components non-zero, v = Vect.normdef(x, y) has
\* components equal to the inputs (v.x == x and v.y == y, with
\* v.x = magnitude * normal.x and v.y = magnitude * normal.y), so that
\* -(-v) == v.
C25_VectRoundTrip ==
    (call.fn = "Vect.normdef" /\ ~(call.x = 0 /\ call.y = 0)) =>
        /\ ret.kind = "Vect"
        /\ ret.x = Whole(call.x)
        /\ ret.y = Whole(call.y)
        /\ Vect_eq(Vect_neg(Vect_neg(ret)), ret)
\* --- properties of Segment equality ---

\* the two end points of a Segment, as a set
endpoints(s) == {s.origin, s.end}

\* C26: Segment equality is sound -- whenever Segment(a, b) == Segment(c, d)
\* holds, the two segments have the same pair of endpoints
\* ({a, b} = {c, d}); segments of different length or extent that merely
\* share an endpoint and a direction never compare equal.
C26_SegmentEqualitySound ==
    (call.fn = "segment_eq" /\ ret.value) =>
        endpoints(call.a) = endpoints(call.b)

====
